---------------------------- MODULE Spec2Model ----------------------------
(***************************************************************************)
(* A model of the NetBox custom script "Commission New Device" in its two  *)
(* revisions: scripts/create_new_device.py, whose labels are idn-mgmt,     *)
(* idn-dmz-a, ..., and scripts/new_device_with_int_conn.py, whose labels   *)
(* are mgmt_subnet, dmz_a_subnet, ... and which adds the global prefix     *)
(* fallback.                                                               *)
(*                                                                         *)
(* Strings are sequences of lexemes.  A lexeme is either one of the        *)
(* characters the scripts look at (" ", "=", ":", "#", "\n") or a run of   *)
(* other characters ("eth0", "switch-1"): strip, split, startswith and     *)
(* "in" only ever look at the former, so they are modelled on the sequence *)
(* as Python computes them on the characters.  The CIDR notation of a      *)
(* prefix, which the scripts compare as a string, is a sequence of         *)
(* character codes.                                                        *)
(***************************************************************************)
EXTENDS Integers, Sequences, FiniteSets, TLC

VARIABLES
    script,        \* which revision of the script is installed
    devices,       \* dcim.Device rows, indexed by primary key
    interfaces,    \* dcim.Interface rows
    prefixes,      \* ipam.Prefix rows, in queryset order
    ip_addresses,  \* ipam.IPAddress rows, in creation order
    cables,        \* dcim.Cable rows, in creation order
    request,       \* the (data, commit) of the invocation that has just run, or None
    outcome,       \* what that invocation ended in, or None
    runs,          \* number of invocations so far
    log,           \* the "Assigned ..." log lines of all invocations so far
    call           \* a direct call of one helper and what it returned, or None

vars == <<script, devices, interfaces, prefixes, ip_addresses, cables,
          request, outcome, runs, log, call>>

store == <<devices, interfaces, ip_addresses, cables>>

\* Python's None: of a site, of an optional record, of a helper call, of a
\* primary key.  An optional string that is None is modelled by the empty
\* string: the scripts only test such strings for truth.
None == "None"
Nothing == [kind |-> "None"]
NoCall == [fn |-> "None"]
NoPk == 0

--------------------------------------------------------------------------
(* Bounds *)

\* Number of bits of an address (IPv4 has 32).
AddrBits == 4

\* Number of invocations of the script in one behaviour.
MaxRuns == 2

\* Number of Prefix rows in the store of a direct _find_prefix call.
MaxPools == 2

\* Number of characters of the patch-plan text of a direct _parse_patch_plan call.
MaxTextLen == 6

--------------------------------------------------------------------------
(* Python str operations *)

Whitespace == {" ", "\n"}

RECURSIVE lstrip(_)
lstrip(s) ==
    IF s # <<>> /\ Head(s) \in Whitespace THEN lstrip(Tail(s)) ELSE s

RECURSIVE rstrip(_)
rstrip(s) ==
    IF s # <<>> /\ s[Len(s)] \in Whitespace
    THEN rstrip(SubSeq(s, 1, Len(s) - 1))
    ELSE s

\* str.strip()
strip(s) == rstrip(lstrip(s))

\* c in s
Contains(s, c) == \E i \in 1..Len(s) : s[i] = c

\* s.find(c), 1-based; only used when c is in s
Find(s, c) ==
    CHOOSE i \in 1..Len(s) : s[i] = c /\ \A j \in 1..(i - 1) : s[j] # c

\* s.split(c, 1): a list of one or two strings
split1(s, c) ==
    IF Contains(s, c)
    THEN <<SubSeq(s, 1, Find(s, c) - 1), SubSeq(s, Find(s, c) + 1, Len(s))>>
    ELSE <<s>>

\* str.splitlines(): no empty last line after a trailing line break
RECURSIVE splitlines(_)
splitlines(text) ==
    IF text = <<>> THEN <<>>
    ELSE IF Contains(text, "\n")
         THEN <<SubSeq(text, 1, Find(text, "\n") - 1)>>
              \o splitlines(SubSeq(text, Find(text, "\n") + 1, Len(text)))
         ELSE <<text>>

\* s.startswith(c)
startswith(s, c) == s # <<>> /\ Head(s) = c

\* CommissionDevice._normalize: (s or "").strip()
_normalize(s) == strip(s)

--------------------------------------------------------------------------
(* Prefixes and their CIDR notation *)

\* The decimal digits of n, as character codes ("0" is 48)
RECURSIVE Digits(_)
Digits(n) ==
    IF n < 10 THEN <<48 + n>> ELSE Digits(n \div 10) \o <<48 + (n % 10)>>

\* str(p.prefix): "<network>/<prefixlen>" ("/" is 47)
CidrStr(p) == Digits(p.net) \o <<47>> \o Digits(p.len)

\* Python's s > t on strings: the first differing character decides, and a
\* proper prefix is the smaller string
RECURSIVE StrGreater(_, _)
StrGreater(s, t) ==
    IF s = <<>> THEN FALSE
    ELSE IF t = <<>> THEN TRUE
    ELSE IF Head(s) # Head(t) THEN Head(s) > Head(t)
    ELSE StrGreater(Tail(s), Tail(t))

\* The addresses of a prefix
PrefixRange(p) == p.net .. (p.net + 2^(AddrBits - p.len) - 1)

\* A sort key that compares the networks as numbers instead of the CIDR
\* strings as text: what C1 tells from the code's key
KeyGreater_NumericNetwork(p, q) ==
    \/ p.prefix.len > q.prefix.len
    \/ /\ p.prefix.len = q.prefix.len
       /\ p.prefix.net > q.prefix.net

\* The sort key of a candidate: (p.prefix.prefixlen, str(p.prefix)); Python
\* compares tuples by their first differing component
KeyGreater(p, q) ==
    \/ p.prefix.len > q.prefix.len
    \/ /\ p.prefix.len = q.prefix.len
       /\ StrGreater(CidrStr(p.prefix), CidrStr(q.prefix))

\* list.sort(key=..., reverse=True) is stable: rows of equal key keep their
\* order.  Insert p behind every row whose key is not smaller.
RECURSIVE InsertDesc(_, _)
InsertDesc(sorted, p) ==
    IF sorted = <<>> THEN <<p>>
    ELSE IF KeyGreater(p, Head(sorted)) THEN <<p>> \o sorted
    ELSE <<Head(sorted)>> \o InsertDesc(Tail(sorted), p)

RECURSIVE SortCandidates(_)
SortCandidates(candidates) ==
    IF candidates = <<>> THEN <<>>
    ELSE InsertDesc(SortCandidates(SubSeq(candidates, 1, Len(candidates) - 1)),
                    candidates[Len(candidates)])

\* Prefix.objects.filter(site=site, tags__name=tag_name)
FilterSiteTag(rows, site, tag_name) ==
    SelectSeq(rows, LAMBDA p : p.site = site /\ tag_name \in p.tags)

\* Prefix.objects.filter(site__isnull=True, tags__name=tag_name)
FilterGlobalTag(rows, tag_name) ==
    SelectSeq(rows, LAMBDA p : p.site = None /\ tag_name \in p.tags)

\* An AbortScript raised by a helper
Abort(msg) == [kind |-> "AbortScript", msg |-> msg]

\* create_new_device.py: the most specific prefix of the site with the tag
_find_site_prefix_by_tag(rows, site, tag_name) ==
    LET qs == FilterSiteTag(rows, site, tag_name)
    IN  IF qs = <<>>
        THEN Abort("No prefix found")
        ELSE [kind |-> "return", prefix |-> SortCandidates(qs)[1]]

\* Candidates that fall back to the global prefixes whatever the flag: what
\* C2 tells from the code's candidates
FindPrefixCandidates_AlwaysFallback(rows, site, tag_name, allow_global_fallback) ==
    IF FilterSiteTag(rows, site, tag_name) # <<>>
    THEN FilterSiteTag(rows, site, tag_name)
    ELSE FilterGlobalTag(rows, tag_name)

\* new_device_with_int_conn.py: the candidates are the site's prefixes with
\* the tag; failing those, and only with the fallback allowed, the global ones
FindPrefixCandidates(rows, site, tag_name, allow_global_fallback) ==
    IF FilterSiteTag(rows, site, tag_name) # <<>>
    THEN FilterSiteTag(rows, site, tag_name)
    ELSE IF allow_global_fallback
         THEN FilterGlobalTag(rows, tag_name)
         ELSE <<>>

_find_prefix(rows, site, tag_name, allow_global_fallback) ==
    LET candidates == FindPrefixCandidates(rows, site, tag_name, allow_global_fallback)
    IN  IF candidates = <<>>
        THEN Abort("No prefix found")
        ELSE [kind |-> "return", prefix |-> SortCandidates(candidates)[1]]

--------------------------------------------------------------------------
(* The patch plan *)

\* One line of _parse_patch_plan's loop body: the line is skipped, appended
\* as a mapping, or ends the call in an exception
ParseLine(raw) ==
    LET line  == strip(raw)
        parts == split1(line, "=")
        left  == parts[1]
        right == parts[2]
        rparts == split1(right, ":")
        a_iface  == _normalize(left)
        b_device == _normalize(rparts[1])
        b_iface  == _normalize(rparts[2])
    IN  IF line = <<>> \/ startswith(line, "#")
        THEN [kind |-> "continue"]
        ELSE IF ~Contains(line, "=") \/ ~Contains(line, ":")
        THEN Abort("Patch plan line is invalid")
        ELSE IF Len(rparts) # 2
        \* b_dev, b_if = right.split(":", 1) with no ":" in right: the
        \* unpacking of a one-element list raises ValueError
        THEN [kind |-> "ValueError", msg |-> "not enough values to unpack"]
        ELSE IF a_iface = <<>> \/ b_device = <<>> \/ b_iface = <<>>
        THEN Abort("Patch plan line has empty values")
        ELSE [kind |-> "append", mapping |-> <<a_iface, b_device, b_iface>>]

\* for idx, raw in enumerate(lines, start=1), from line idx on
RECURSIVE ParseLines(_, _, _)
ParseLines(lines, idx, mappings) ==
    IF idx > Len(lines)
    THEN [kind |-> "return", mappings |-> mappings]
    ELSE LET r == ParseLine(lines[idx])
         IN  CASE r.kind = "continue" -> ParseLines(lines, idx + 1, mappings)
               [] r.kind = "append" ->
                    ParseLines(lines, idx + 1, Append(mappings, r.mapping))
               [] OTHER -> [kind |-> r.kind, msg |-> r.msg, line |-> idx]

\* A parser that hands over the mappings one line at a time, the first line
\* alone before the rest is looked at
_parse_patch_plan_FirstLineOnly(text) ==
    IF text = <<>>
    THEN [kind |-> "return", mappings |-> <<>>]
    ELSE ParseLines(<<splitlines(text)[1]>>, 1, <<>>)

\* CommissionDevice._parse_patch_plan (the same in both revisions)
_parse_patch_plan(text) ==
    IF text = <<>>
    THEN [kind |-> "return", mappings |-> <<>>]
    ELSE ParseLines(splitlines(text), 1, <<>>)

--------------------------------------------------------------------------
(* Configuration of the two revisions *)

Scripts == {"create_new_device", "new_device_with_int_conn"}

\* CommissionDevice.SUBNET_LABELS
SUBNET_LABELS ==
    IF script = "create_new_device"
    THEN {<<"idn-mgmt">>, <<"idn-dmz-a">>, <<"idn-dmz-b">>, <<"idn-rtp">>}
    ELSE {<<"mgmt_subnet">>, <<"dmz_a_subnet">>, <<"dmz_b_subnet">>, <<"rtp_subnet">>}

\* CommissionDevice.MGMT_LABEL
MGMT_LABEL ==
    IF script = "create_new_device" THEN <<"idn-mgmt">> ELSE <<"mgmt_subnet">>

\* A second label of the vocabulary
DMZ_A_LABEL ==
    IF script = "create_new_device" THEN <<"idn-dmz-a">> ELSE <<"dmz_a_subnet">>

--------------------------------------------------------------------------
(* Direct calls of the helpers *)

Sites == {"A", "B"}

\* The Prefix rows a store of a direct call is made of
PoolNets == {4, 8, 12}
PoolLens == {AddrBits - 2, AddrBits - 1}
PoolRows ==
    [prefix : [net : PoolNets, len : PoolLens],
     site   : Sites \cup {None},
     tags   : {{MGMT_LABEL}, {DMZ_A_LABEL}}]

SeqsUpTo(S, n) == UNION {[1..k -> S] : k \in 0..n}

\* The characters of a patch-plan text; "a" stands for any other character
PlanAlphabet == {"a", " ", "=", ":", "#", "\n"}

Idle ==
    /\ request = Nothing
    /\ outcome = Nothing
    /\ runs = 0

EmptyStore ==
    /\ devices = <<>>
    /\ interfaces = <<>>
    /\ ip_addresses = <<>>
    /\ cables = <<>>
    /\ log = <<>>

SelectInit ==
    /\ script \in Scripts
    /\ prefixes \in SeqsUpTo(PoolRows, MaxPools)
    /\ EmptyStore
    /\ Idle
    /\ call = NoCall

\* self._find_site_prefix_by_tag(site, tag_name)
FindSitePrefixByTag(site, tag_name) ==
    /\ script = "create_new_device"
    /\ call = NoCall
    /\ call' = [fn |-> "_find_site_prefix_by_tag", site |-> site,
                tag_name |-> tag_name, allow_global_fallback |-> FALSE,
                result |-> _find_site_prefix_by_tag(prefixes, site, tag_name)]
    /\ UNCHANGED <<script, prefixes, store, log, request, outcome, runs>>

\* self._find_prefix(site, tag_name, allow_global_fallback)
FindPrefix(site, tag_name, allow_global_fallback) ==
    /\ script = "new_device_with_int_conn"
    /\ call = NoCall
    /\ call' = [fn |-> "_find_prefix", site |-> site,
                tag_name |-> tag_name,
                allow_global_fallback |-> allow_global_fallback,
                result |-> _find_prefix(prefixes, site, tag_name,
                                        allow_global_fallback)]
    /\ UNCHANGED <<script, prefixes, store, log, request, outcome, runs>>

SelectNext ==
    \/ \E site \in Sites, tag_name \in {MGMT_LABEL, DMZ_A_LABEL} :
          FindSitePrefixByTag(site, tag_name)
    \/ \E site \in Sites, tag_name \in {MGMT_LABEL, DMZ_A_LABEL},
          allow_global_fallback \in BOOLEAN :
          FindPrefix(site, tag_name, allow_global_fallback)

SelectSpec == SelectInit /\ [][SelectNext]_vars

ParseInit ==
    /\ script \in Scripts
    /\ prefixes = <<>>
    /\ EmptyStore
    /\ Idle
    /\ call \in [fn : {"_parse_patch_plan"},
                 text : SeqsUpTo(PlanAlphabet, MaxTextLen),
                 result : {Nothing}]

\* self._parse_patch_plan(text)
ParsePatchPlan ==
    /\ call.fn = "_parse_patch_plan"
    /\ call.result = Nothing
    /\ call' = [call EXCEPT !.result = _parse_patch_plan(call.text)]
    /\ UNCHANGED <<script, prefixes, store, log, request, outcome, runs>>

ParseNext == ParsePatchPlan

ParseSpec == ParseInit /\ [][ParseNext]_vars

--------------------------------------------------------------------------
(* The store, and what the platform does with it *)

\* The tables the script reads and writes, as one value
Store(d, i, ip, c) ==
    [devices |-> d, interfaces |-> i, ip_addresses |-> ip, cables |-> c]

\* The interface templates of the device types of the store: "dt-server"
\* has a management interface (its label padded with blanks) and a DMZ one,
\* "dt-dmz" has no management interface, "dt-none" has no interface
Template(name, label) == [name |-> name, label |-> label]
InterfaceTemplates(device_type) ==
    CASE device_type = "dt-none" -> <<>>
      [] device_type = "dt-server" ->
            <<Template(<<"eth0">>, <<" ">> \o MGMT_LABEL \o <<" ">>),
              Template(<<"eth1">>, DMZ_A_LABEL)>>
      [] device_type = "dt-dmz" ->
            <<Template(<<"eth0">>, DMZ_A_LABEL), Template(<<"eth1">>, <<>>)>>
      [] device_type = "dt-switch" ->
            <<Template(<<"Ethernet1/1">>, <<>>),
              Template(<<"Ethernet1/2">>, <<>>)>>

\* device.save() of a new Device: the row, and one Interface row for each
\* interface template of its device type
SaveDevice(st, name, site, device_type) ==
    LET pk == Len(st.devices) + 1
        templates == InterfaceTemplates(device_type)
    IN  [st EXCEPT
           !.devices = Append(@, [name |-> name, site |-> site,
                                  device_type |-> device_type,
                                  primary_ip4 |-> Nothing]),
           !.interfaces = @ \o [k \in 1..Len(templates) |->
                                  [device |-> pk,
                                   name |-> templates[k].name,
                                   label |-> templates[k].label]]]

\* Device.objects.filter(name=hostname).exists()
DeviceExists_Unchecked(st, name) == FALSE

DeviceExists(st, name) ==
    \E pk \in 1..Len(st.devices) : st.devices[pk].name = name

\* Device.objects.filter(name=name).first(): a primary key, or NoPk
FirstDevice(st, name) ==
    IF \E pk \in 1..Len(st.devices) : st.devices[pk].name = name
    THEN CHOOSE pk \in 1..Len(st.devices) :
            /\ st.devices[pk].name = name
            /\ \A q \in 1..(pk - 1) : st.devices[q].name # name
    ELSE NoPk

\* list(device.interfaces.all())
DeviceInterfaces(st, device) ==
    SelectSeq(st.interfaces, LAMBDA i : i.device = device)

\* Interface.objects.filter(device=b_dev, name=b_if_name).exists()
InterfaceExists(st, device, name) ==
    \E k \in 1..Len(st.interfaces) :
        st.interfaces[k].device = device /\ st.interfaces[k].name = name

\* An interface is referred to by its device and its name
Ref(device, name) == <<device, name>>

\* Interface.cable of a freshly loaded interface: whether a cable ends on it
HasCable(st, ref) ==
    \E k \in 1..Len(st.cables) : ref \in {st.cables[k].a, st.cables[k].b}

\* Prefix.get_first_available_ip(): the first address of the prefix that no
\* IPAddress row records, with the prefix's mask; Nothing when there is none
get_first_available_ip(st, prefix) ==
    LET taken == {st.ip_addresses[k].address : k \in 1..Len(st.ip_addresses)}
        free  == PrefixRange(prefix.prefix) \ taken
    IN  IF free = {}
        THEN Nothing
        ELSE [kind |-> "ip",
              address |-> CHOOSE a \in free : \A b \in free : a <= b,
              mask |-> prefix.prefix.len]

--------------------------------------------------------------------------
(* The steps of CommissionDevice.run *)

\* _allocate_next_ip / _allocate_next_ip_str
_allocate_next_ip(st, prefix) ==
    LET ip == get_first_available_ip(st, prefix)
    IN  IF ip = Nothing
        THEN Abort("No available IPs left in prefix")
        ELSE [kind |-> "return", address |-> ip.address, mask |-> ip.mask]

\* ip_obj.full_clean(); ip_obj.save()
SaveIp_Forgotten(st, ip_obj) == st

SaveIp(st, ip_obj) == [st EXCEPT !.ip_addresses = Append(@, ip_obj)]

\* target_labels = set(self.SUBNET_LABELS) if allocate_all else {self.MGMT_LABEL}
target_labels_AlwaysAll(allocate_all) == SUBNET_LABELS

target_labels(allocate_all) ==
    IF allocate_all THEN SUBNET_LABELS ELSE {MGMT_LABEL}

\* The interfaces whose label, stripped, is a target label
target_ifaces(ifaces, allocate_all) ==
    SelectSeq(ifaces, LAMBDA i :
        i.label # <<>> /\ strip(i.label) \in target_labels(allocate_all))

\* if label == self.MGMT_LABEL
IsMgmtLabel_Any(label) == TRUE

IsMgmtLabel(label) == label = MGMT_LABEL

\* The prefix of an interface label, by the installed revision
FindPrefixFor(site, label, allow_global_fallback) ==
    IF script = "create_new_device"
    THEN _find_site_prefix_by_tag(prefixes, site, label)
    ELSE _find_prefix(prefixes, site, label, allow_global_fallback)

\* for iface in target_ifaces: find the prefix, allocate, save the IPAddress,
\* log the assignment, remember the management one.  Ends in "done" or in
\* the AbortScript of a helper; what was saved before stays saved.
RECURSIVE AllocateLoop(_, _, _, _, _, _, _)
AllocateLoop(st, data, device, ifaces, k, mgmt_ip_obj, assigned) ==
    IF k > Len(ifaces)
    THEN [kind |-> "done", st |-> st, mgmt_ip_obj |-> mgmt_ip_obj,
          assigned |-> assigned]
    ELSE
    LET iface  == ifaces[k]
        label  == strip(iface.label)
        found  == FindPrefixFor(data.site, label, data.allow_global_prefix_fallback)
        addr   == _allocate_next_ip(st, found.prefix)
        ip_obj == [address |-> addr.address, mask |-> addr.mask,
                   status |-> "active",
                   assigned_object |-> Ref(device, iface.name)]
        entry  == [address |-> addr.address, device |-> device,
                   iface |-> iface.name, label |-> label,
                   prefix |-> found.prefix]
    IN  IF found.kind # "return"
        THEN [kind |-> "AbortScript", msg |-> found.msg, st |-> st,
              assigned |-> assigned, label |-> label, prefix |-> Nothing]
        ELSE IF addr.kind # "return"
        THEN [kind |-> "AbortScript", msg |-> addr.msg, st |-> st,
              assigned |-> assigned, label |-> label, prefix |-> found.prefix]
        ELSE AllocateLoop(SaveIp(st, ip_obj), data, device, ifaces, k + 1,
                          IF IsMgmtLabel(label) THEN ip_obj ELSE mgmt_ip_obj,
                          Append(assigned, entry))

\* device.primary_ip4 = mgmt_ip_obj; device.save()
SetPrimary(st, device, mgmt_ip_obj) ==
    [st EXCEPT !.devices[device].primary_ip4 = mgmt_ip_obj]

\* a_if_by_name = {i.name: i for i in device.interfaces.all()}: the
\* interfaces of the new device as loaded at this point.  Nothing in the
\* script reloads them, so .cable is what it was when they were loaded.
a_if_by_name(st, device) ==
    LET ifaces == DeviceInterfaces(st, device)
    IN  [name \in {ifaces[k].name : k \in 1..Len(ifaces)} |->
            [ref |-> Ref(device, name), cable |-> HasCable(st, Ref(device, name))]]

\* if getattr(a_iface, "cable", None) or getattr(b_iface, "cable", None)
AlreadyCabled_BSideUnchecked(a_iface, b_iface) == a_iface.cable

AlreadyCabled(a_iface, b_iface) == a_iface.cable \/ b_iface.cable

\* Cable.objects.create(a_terminations=[a_iface], b_terminations=[b_iface])
CreateCable(st, a_iface, b_iface) ==
    [st EXCEPT !.cables = Append(@, [a |-> a_iface.ref, b |-> b_iface.ref])]

\* Whether the cable asked of Cable.objects.create would put a second
\* termination on an interface
SecondTermination(st, a_iface, b_iface) ==
    \/ HasCable(st, a_iface.ref)
    \/ HasCable(st, b_iface.ref)
    \/ a_iface.ref = b_iface.ref

\* _create_cable: False when it skips, True when it has created the cable.
\* A store that enforces one termination per interface (unique_terminations)
\* refuses a second one with an IntegrityError, which the script does not
\* catch.
_create_cable(st, a_iface, b_iface, unique_terminations) ==
    IF AlreadyCabled(a_iface, b_iface)
    THEN [kind |-> "return", value |-> FALSE, st |-> st]
    ELSE IF unique_terminations /\ SecondTermination(st, a_iface, b_iface)
    THEN [kind |-> "IntegrityError", st |-> st]
    ELSE [kind |-> "return", value |-> TRUE,
          st |-> CreateCable(st, a_iface, b_iface)]

\* for a_name, b_dev_name, b_if_name in mappings
RECURSIVE CableLoop(_, _, _, _, _, _, _, _, _)
CableLoop(st, data, device, by_name, mappings, k, created, skipped, unique_terminations) ==
    IF k > Len(mappings)
    THEN [kind |-> "done", st |-> st, created |-> created, skipped |-> skipped]
    ELSE
    LET a_name     == mappings[k][1]
        b_dev_name == mappings[k][2]
        b_if_name  == mappings[k][3]
        b_dev      == FirstDevice(st, b_dev_name)
        b_iface    == [ref |-> Ref(b_dev, b_if_name),
                       cable |-> HasCable(st, Ref(b_dev, b_if_name))]
        ok         == _create_cable(st, by_name[a_name], b_iface,
                                    unique_terminations)
        Raise(msg) == [kind |-> "AbortScript", msg |-> msg, st |-> st,
                       created |-> created, skipped |-> skipped]
    IN  IF a_name \notin DOMAIN by_name
        THEN Raise("A-side interface not found")
        ELSE IF b_dev = NoPk
        THEN Raise("B-side device not found")
        ELSE IF data.enforce_patch_plan_site_match
                /\ st.devices[b_dev].site # data.site
        THEN Raise("B-side device is in another site")
        ELSE IF ~InterfaceExists(st, b_dev, b_if_name)
        THEN Raise("B-side interface not found")
        ELSE IF ok.kind # "return"
        THEN [kind |-> ok.kind, msg |-> "second termination", st |-> st,
              created |-> created, skipped |-> skipped]
        ELSE CableLoop(ok.st, data, device, by_name, mappings, k + 1,
                       IF ok.value THEN created + 1 ELSE created,
                       IF ok.value THEN skipped ELSE skipped + 1,
                       unique_terminations)

\* What an invocation ended in.  at: the step it ended in; device: the
\* primary key of the device it created; assigned: its "Assigned ..." log
\* lines; warned: the warning that no primary IPv4 was set; summary, created,
\* skipped: the cabling summary line; line: the patch-plan line of a parse
\* failure; label, prefix: the interface label and prefix of a failed
\* allocation
NoOutcome ==
    [kind |-> "return", msg |-> "", at |-> "", device |-> NoPk,
     assigned |-> <<>>, warned |-> FALSE, summary |-> FALSE,
     created |-> 0, skipped |-> 0, line |-> 0,
     label |-> <<>>, prefix |-> Nothing]

\* 6) Optional cabling from patch plan, and the final return
Cabling(st, data, device, out, unique_terminations) ==
    LET parsed == _parse_patch_plan(data.patch_plan)
        loop   == CableLoop(st, data, device, a_if_by_name(st, device),
                            parsed.mappings, 1, 0, 0, unique_terminations)
    IN  IF ~data.create_cables_from_patch_plan
        THEN [st |-> st,
              outcome |-> [out EXCEPT !.msg = "Commissioning complete",
                                      !.at = "complete"]]
        ELSE IF parsed.kind # "return"
        THEN [st |-> st,
              outcome |-> [out EXCEPT !.kind = parsed.kind, !.msg = parsed.msg,
                                      !.at = "cabling", !.line = parsed.line]]
        ELSE IF parsed.mappings = <<>>
        THEN [st |-> st,
              outcome |-> [out EXCEPT !.kind = "AbortScript",
                                      !.msg = "Cabling enabled but patch plan is empty",
                                      !.at = "cabling"]]
        ELSE IF loop.kind # "done"
        THEN [st |-> loop.st,
              outcome |-> [out EXCEPT !.kind = loop.kind, !.msg = loop.msg,
                                      !.at = "cabling",
                                      !.created = loop.created,
                                      !.skipped = loop.skipped]]
        ELSE [st |-> loop.st,
              outcome |-> [out EXCEPT !.msg = "Commissioning complete",
                                      !.at = "complete", !.summary = TRUE,
                                      !.created = loop.created,
                                      !.skipped = loop.skipped]]

\* if not interfaces
NoInterfaces_Unchecked(ifaces) == FALSE

NoInterfaces(ifaces) == ifaces = <<>>

\* 3) to 5): the interfaces of the new device, the target interfaces, the
\* allocation, the primary IPv4
Allocation(st, data, device, out, unique_terminations) ==
    LET ifaces  == DeviceInterfaces(st, device)
        targets == target_ifaces(ifaces, data.allocate_all_labeled_interfaces)
        loop    == AllocateLoop(st, data, device, targets, 1, Nothing, <<>>)
        Raise(msg, at) ==
            [st |-> st,
             outcome |-> [out EXCEPT !.kind = "AbortScript", !.msg = msg,
                                     !.at = at]]
    IN  IF NoInterfaces(ifaces)
        THEN Raise("No interfaces found on device after creation", "interfaces")
        ELSE IF targets = <<>>
        THEN Raise("No interfaces matched the required labels", "pick interfaces")
        ELSE IF loop.kind # "done"
        THEN [st |-> loop.st,
              outcome |-> [out EXCEPT !.kind = "AbortScript", !.msg = loop.msg,
                                      !.at = "allocate",
                                      !.assigned = loop.assigned,
                                      !.label = loop.label,
                                      !.prefix = loop.prefix]]
        ELSE Cabling(IF loop.mgmt_ip_obj # Nothing
                     THEN SetPrimary(loop.st, device, loop.mgmt_ip_obj)
                     ELSE loop.st,
                     data, device,
                     [out EXCEPT !.assigned = loop.assigned,
                                 !.warned = (loop.mgmt_ip_obj = Nothing)],
                     unique_terminations)

\* if not commit: return "Dry-run complete."
DryRun_Ignored(commit) == FALSE

DryRun(commit) == ~commit

\* CommissionDevice.run(data, commit): the store it leaves and its outcome
Steps(st, data, commit, unique_terminations) ==
    LET hostname == _normalize(data.hostname)
        created  == SaveDevice(st, hostname, data.site, data.device_type)
    IN  IF DeviceExists(st, hostname)
        THEN [st |-> st,
              outcome |-> [NoOutcome EXCEPT !.kind = "AbortScript",
                                            !.msg = "Device name already exists",
                                            !.at = "uniqueness"]]
        ELSE IF DryRun(commit)
        THEN [st |-> st,
              outcome |-> [NoOutcome EXCEPT !.msg = "Dry-run complete.",
                                            !.at = "dry-run"]]
        ELSE Allocation(created, data, Len(created.devices),
                        [NoOutcome EXCEPT !.device = Len(created.devices)],
                        unique_terminations)

\* The store an exception leaves when it ends run().  The script catches
\* nothing and undoes nothing, and each save() and create() is taken to be
\* committed when it is made: what was saved before the exception stays.
Raised_RolledBack(before, after) == before

Raised(before, after) == after

\* CommissionDevice.run: its steps, and the store it leaves
RunScript(st, data, commit, unique_terminations) ==
    CHOOSE result \in
        {IF r.outcome.kind = "return"
         THEN r
         ELSE [st |-> Raised(st, r.st), outcome |-> r.outcome] :
            r \in {Steps(st, data, commit, unique_terminations)}} : TRUE

--------------------------------------------------------------------------
(* The specification of the script in its store *)

Hostnames == {<<"dev-1">>, <<" ", "dev-2", " ">>}

Mapping(a, b_dev, b_if) == <<a, "=", b_dev, ":", b_if>>

\* The patch plan of the script's own example, and plans that have no
\* mapping, name an interface twice, have a bad line behind a good one, name
\* a device that does not exist, name the new device itself, or name an
\* interface the new device does not have
PlanExample == Mapping("eth0", "switch-1", "Ethernet1/1")
PatchPlans ==
    {PlanExample,
     <<"#", "none", "\n", " ">>,
     PlanExample \o <<"\n">> \o Mapping("eth0", "switch-1", "Ethernet1/2"),
     PlanExample \o <<"\n">> \o Mapping("eth1", "switch-1", "Ethernet1/1"),
     PlanExample \o <<"\n">> \o <<"eth1", "=", "switch-1">>,
     PlanExample \o <<"\n">> \o <<"eth1", ":", "x", "=", "switch-1">>,
     PlanExample \o <<"\n">> \o Mapping("eth1", "switch-9", "Ethernet1/1"),
     <<" ">> \o Mapping("eth0", "dev-1", "eth0"),
     Mapping("eth9", "switch-1", "Ethernet1/2")}

\* The form data of an invocation.  Only new_device_with_int_conn.py has the
\* field allow_global_prefix_fallback.  With cabling disabled the two other
\* cabling fields are not read, and are left at their defaults.
Data ==
    [hostname : Hostnames,
     site : Sites,
     device_type : {"dt-none", "dt-server", "dt-dmz"},
     allocate_all_labeled_interfaces : BOOLEAN,
     allow_global_prefix_fallback :
         IF script = "new_device_with_int_conn" THEN BOOLEAN ELSE {FALSE},
     create_cables_from_patch_plan : {FALSE},
     enforce_patch_plan_site_match : {TRUE},
     patch_plan : {<<>>}]
    \cup
    [hostname : Hostnames,
     site : Sites,
     device_type : {"dt-none", "dt-server", "dt-dmz"},
     allocate_all_labeled_interfaces : BOOLEAN,
     allow_global_prefix_fallback :
         IF script = "new_device_with_int_conn" THEN BOOLEAN ELSE {FALSE},
     create_cables_from_patch_plan : {TRUE},
     enforce_patch_plan_site_match : BOOLEAN,
     patch_plan : PatchPlans]

Row(net, len, site, tags) ==
    [prefix |-> [net |-> net, len |-> len], site |-> site, tags |-> tags]

\* The prefixes of the store: at site A one for both labels and a less
\* specific one around it, at site B one for the DMZ label only, and a
\* global one for the management label
InitialPrefixes ==
    <<Row(8, AddrBits - 1, "A", {MGMT_LABEL, DMZ_A_LABEL}),
      Row(8, AddrBits - 2, "A", {MGMT_LABEL}),
      Row(12, AddrBits - 1, "B", {DMZ_A_LABEL}),
      Row(4, AddrBits - 1, None, {MGMT_LABEL})>>

\* The store holds the switch of the README example, at site A, with one
\* address of the global prefix on it
InitialStore ==
    LET st == SaveDevice(Store(<<>>, <<>>, <<>>, <<>>),
                         <<"switch-1">>, "A", "dt-switch")
    IN  SaveIp(st, [address |-> 4, mask |-> AddrBits - 1, status |-> "active",
                    assigned_object |-> Ref(1, <<"Ethernet1/2">>)])

Init ==
    /\ script \in Scripts
    /\ prefixes = InitialPrefixes
    /\ devices = InitialStore.devices
    /\ interfaces = InitialStore.interfaces
    /\ ip_addresses = InitialStore.ip_addresses
    /\ cables = InitialStore.cables
    /\ log = <<>>
    /\ Idle
    /\ call = NoCall

\* One invocation of the script, from the form to its result.  Whether the
\* store enforces one termination per interface is the platform's matter:
\* both are possible (it is only ever asked when a cable is created).
run ==
    /\ call = NoCall
    /\ request = Nothing
    /\ runs < MaxRuns
    /\ \E data \in Data, commit \in BOOLEAN :
       \E unique_terminations \in
             IF commit /\ data.create_cables_from_patch_plan
             THEN BOOLEAN ELSE {FALSE} :
       \E r \in {RunScript(Store(devices, interfaces, ip_addresses, cables),
                            data, commit, unique_terminations)} :
              /\ devices' = r.st.devices
              /\ interfaces' = r.st.interfaces
              /\ ip_addresses' = r.st.ip_addresses
              /\ cables' = r.st.cables
              /\ outcome' = r.outcome
              /\ log' = log \o r.outcome.assigned
              /\ request' = [kind |-> "run", data |-> data, commit |-> commit]
    /\ runs' = runs + 1
    /\ UNCHANGED <<script, prefixes, call>>

\* The result of the invocation has been read: the script can be run again
Finish ==
    /\ request # Nothing
    /\ request' = Nothing
    /\ outcome' = Nothing
    /\ UNCHANGED <<script, prefixes, store, log, runs, call>>

Next ==
    \/ run
    \/ Finish

Spec == Init /\ [][Next]_vars

--------------------------------------------------------------------------
(* Properties of prefix selection (under SelectSpec) *)

Selecting == call.fn \in {"_find_site_prefix_by_tag", "_find_prefix"}

\* The rows of the store with the call's tag at the call's site, and the
\* rows with the tag and no site
SiteTagged ==
    {i \in 1..Len(prefixes) :
        prefixes[i].site = call.site /\ call.tag_name \in prefixes[i].tags}
GlobalTagged ==
    {i \in 1..Len(prefixes) :
        prefixes[i].site = None /\ call.tag_name \in prefixes[i].tags}

Returned == call.result.kind = "return"

\* C1: whenever some prefix carries the requested tag at the requested site,
\* selection returns one of these prefixes, none of them has a greater prefix
\* length, and none of the same prefix length has a greater CIDR string.
C1_MostSpecificThenGreatestCidr ==
    (Selecting /\ SiteTagged # {}) =>
        /\ Returned
        /\ \E i \in SiteTagged : prefixes[i] = call.result.prefix
        /\ \A i \in SiteTagged :
              /\ prefixes[i].prefix.len <= call.result.prefix.prefix.len
              /\ prefixes[i].prefix.len = call.result.prefix.prefix.len =>
                    ~StrGreater(CidrStr(prefixes[i].prefix),
                                CidrStr(call.result.prefix.prefix))

\* C1 witness: two candidates of the same length, and the one returned has
\* the numerically smaller network: "8/2" beats "12/2" as a string.
C1_Witness ==
    /\ Selecting
    /\ Returned
    /\ \E i \in SiteTagged :
          /\ prefixes[i].prefix.len = call.result.prefix.prefix.len
          /\ prefixes[i].prefix.net > call.result.prefix.prefix.net

\* C2: without the fallback a returned prefix is of the requested site, and
\* the call aborts with "No prefix found" when the site has no prefix with
\* the tag, whatever global prefixes exist; with the fallback a global prefix
\* is returned only when the site has none with the tag, and a prefix of the
\* site is returned when it has one.
C2_FallbackOnlyWhenAllowedAndNeeded ==
    Selecting =>
        /\ ~call.allow_global_fallback =>
              /\ Returned => call.result.prefix.site = call.site
              /\ SiteTagged = {} =>
                    call.result = Abort("No prefix found")
        /\ call.allow_global_fallback =>
              /\ (Returned /\ call.result.prefix.site = None) => SiteTagged = {}
              /\ SiteTagged # {} =>
                    Returned /\ call.result.prefix.site = call.site
        /\ Returned => call.result.prefix.site \in {call.site, None}

\* C2 witness: a global prefix with the tag exists, the site has none, the
\* fallback is off, and _find_prefix aborts.
C2_Witness ==
    /\ call.fn = "_find_prefix"
    /\ ~call.allow_global_fallback
    /\ SiteTagged = {}
    /\ GlobalTagged # {}
    /\ call.result.kind = "AbortScript"

--------------------------------------------------------------------------
(* Properties of the patch-plan parser (under ParseSpec) *)

Parsed == call.fn = "_parse_patch_plan" /\ call.result # Nothing

\* What the format asks of a line, in its own words: split on the first "=",
\* then the remainder on its first ":", and all three trimmed tokens are
\* non-empty
ThreeTokens(line) ==
    /\ Contains(line, "=")
    /\ LET left == SubSeq(line, 1, Find(line, "=") - 1)
           rest == SubSeq(line, Find(line, "=") + 1, Len(line))
       IN  /\ Contains(rest, ":")
           /\ strip(left) # <<>>
           /\ strip(SubSeq(rest, 1, Find(rest, ":") - 1)) # <<>>
           /\ strip(SubSeq(rest, Find(rest, ":") + 1, Len(rest))) # <<>>

\* The numbers of the lines that are neither blank, nor comments, nor mappings
MalformedLines(text) ==
    {i \in 1..Len(splitlines(text)) :
        LET line == strip(splitlines(text)[i])
        IN  line # <<>> /\ Head(line) # "#" /\ ~ThreeTokens(line)}

FirstOf(S) == CHOOSE i \in S : \A j \in S : i <= j

\* C7: a text with a malformed line ends _parse_patch_plan in AbortScript
\* with the number of its first malformed line, and in nothing else.
C7_MalformedLineAbortsWithItsNumber ==
    (Parsed /\ MalformedLines(call.text) # {}) =>
        /\ call.result.kind = "AbortScript"
        /\ call.result.line = FirstOf(MalformedLines(call.text))

\* What the parser does instead: it ends in AbortScript or in ValueError at
\* the first malformed line, and returns when there is none.
ParserEndsAtFirstMalformedLine ==
    Parsed =>
        IF MalformedLines(call.text) # {}
        THEN /\ call.result.kind \in {"AbortScript", "ValueError"}
             /\ call.result.line = FirstOf(MalformedLines(call.text))
             /\ call.result.kind = "ValueError" <=>
                   LET line == strip(splitlines(call.text)
                                        [FirstOf(MalformedLines(call.text))])
                   IN  /\ Contains(line, "=") /\ Contains(line, ":")
                       /\ ~Contains(SubSeq(line, Find(line, "=") + 1, Len(line)), ":")
        ELSE call.result.kind = "return"

--------------------------------------------------------------------------
(* Properties of the script in its store (under Spec) *)

\* The state is the one an invocation has left
Ran == request # Nothing
Committed == Ran /\ request.commit

\* The step is an invocation
RunStep == request = Nothing /\ request' # Nothing

Now == Store(devices, interfaces, ip_addresses, cables)

Recorded == {ip_addresses[k].address : k \in 1..Len(ip_addresses)}

\* The label, stripped, of an interface of the store
LabelOf(ref) ==
    LET k == CHOOSE k \in 1..Len(interfaces) :
                 Ref(interfaces[k].device, interfaces[k].name) = ref
    IN  strip(interfaces[k].label)

\* The IPAddress rows on the management-labelled interfaces of a device
MgmtAddresses(device) ==
    {ip_addresses[k] : k \in
        {k \in 1..Len(ip_addresses) :
            /\ ip_addresses[k].assigned_object[1] = device
            /\ LabelOf(ip_addresses[k].assigned_object) = MGMT_LABEL}}

\* C3: no two IPAddress rows record the same address; the addresses the
\* script has taken from one prefix, in the order it took them, are strictly
\* increasing addresses of that prefix; and when an invocation ends in
\* "No available IPs left in prefix", every address of that prefix is
\* recorded.
C3_AllocatedAddressesDistinctAndIncreasing ==
    /\ \A i, j \in 1..Len(ip_addresses) :
          i < j => ip_addresses[i].address # ip_addresses[j].address
    /\ \A i, j \in 1..Len(log) :
          (i < j /\ log[i].prefix = log[j].prefix) =>
              log[i].address < log[j].address
    /\ \A i \in 1..Len(log) :
          /\ log[i].address \in PrefixRange(log[i].prefix.prefix)
          /\ log[i].address \in Recorded
    /\ (Ran /\ outcome.msg = "No available IPs left in prefix") =>
          /\ outcome.kind = "AbortScript"
          /\ PrefixRange(outcome.prefix.prefix) \subseteq Recorded

\* C3 witness: two interfaces of one device have addresses of the same
\* prefix, and a later invocation has found that prefix exhausted.
C3_Witness ==
    /\ Ran
    /\ outcome.msg = "No available IPs left in prefix"
    /\ \E i, j \in 1..Len(log) :
          /\ i < j
          /\ log[i].device = log[j].device
          /\ log[i].prefix = log[j].prefix
          /\ log[i].prefix = outcome.prefix

PastAllocation == outcome.at \in {"cabling", "complete"}

PrimaryOf(device) == devices[device].primary_ip4

\* C4: after a committed invocation that got past the allocation, the new
\* device has a primary address exactly if one of its management-labelled
\* interfaces has an address, and the primary address is then the address
\* row of such an interface.
C4_PrimaryIsAManagementAddress ==
    (Committed /\ PastAllocation) =>
        /\ PrimaryOf(outcome.device) # Nothing <=>
              MgmtAddresses(outcome.device) # {}
        /\ PrimaryOf(outcome.device) # Nothing =>
              PrimaryOf(outcome.device) \in MgmtAddresses(outcome.device)
        /\ outcome.warned <=> PrimaryOf(outcome.device) = Nothing

\* C4 witness: the new device has an address on a management interface and
\* one on another interface, and the former is its primary address.
C4_Witness ==
    /\ Committed
    /\ PastAllocation
    /\ PrimaryOf(outcome.device) # Nothing
    /\ \E k \in 1..Len(ip_addresses) :
          /\ ip_addresses[k].assigned_object[1] = outcome.device
          /\ ip_addresses[k] \notin MgmtAddresses(outcome.device)

\* The new device has interfaces, and none with the management label
NoMgmtInterface ==
    /\ DeviceInterfaces(Now, outcome.device) # <<>>
    /\ \A k \in 1..Len(interfaces) :
          interfaces[k].device = outcome.device =>
              strip(interfaces[k].label) # MGMT_LABEL

\* The new device has an interface with a label of the vocabulary
SomeKnownLabel ==
    \E k \in 1..Len(interfaces) :
        /\ interfaces[k].device = outcome.device
        /\ strip(interfaces[k].label) \in SUBNET_LABELS

MgmtPoolExhausted ==
    /\ outcome.msg = "No available IPs left in prefix"
    /\ outcome.label = MGMT_LABEL

\* C5 as stated: a run whose management-labelled interface finds its pool
\* exhausted aborts and leaves the device without primary address; a run
\* whose device has no management-labelled interface (cabling disabled,
\* every allocation it tries succeeding) returns with the warning and no
\* primary address, whatever allocate_all_labeled_interfaces is.
C5_NoMgmtLabelCompletesEitherWay ==
    (Committed /\ outcome.device # NoPk) =>
        /\ MgmtPoolExhausted =>
              /\ outcome.kind = "AbortScript"
              /\ PrimaryOf(outcome.device) = Nothing
        /\ (/\ NoMgmtInterface
            /\ ~request.data.create_cables_from_patch_plan
            /\ outcome.at # "allocate") =>
              /\ outcome.kind = "return"
              /\ outcome.warned
              /\ PrimaryOf(outcome.device) = Nothing

\* C5 amended: the first half as stated.  A run whose device has no
\* management-labelled interface never sets a primary address; it aborts
\* with "No interfaces matched the required labels" when
\* allocate_all_labeled_interfaces is false or no interface has a label of
\* the vocabulary; otherwise it gets to the allocation, and once past it has
\* logged the warning, and returns when cabling is disabled.
C5_NoMgmtLabelCompletesOnlyWhenAllocatingAll ==
    (Committed /\ outcome.device # NoPk) =>
        /\ MgmtPoolExhausted =>
              /\ outcome.kind = "AbortScript"
              /\ PrimaryOf(outcome.device) = Nothing
        /\ NoMgmtInterface =>
              /\ PrimaryOf(outcome.device) = Nothing
              /\ IF request.data.allocate_all_labeled_interfaces /\ SomeKnownLabel
                 THEN /\ outcome.at \in {"allocate", "cabling", "complete"}
                      /\ PastAllocation => outcome.warned
                      /\ (/\ ~request.data.create_cables_from_patch_plan
                          /\ outcome.at # "allocate") =>
                            outcome.kind = "return" /\ outcome.at = "complete"
                 ELSE /\ outcome.kind = "AbortScript"
                      /\ outcome.msg = "No interfaces matched the required labels"

\* C5 witness: a device without management interface, all labelled
\* interfaces allocated, the run returned with the warning; and the store
\* holds an exhausted prefix.
C5_Witness ==
    /\ Committed
    /\ outcome.device # NoPk
    /\ NoMgmtInterface
    /\ request.data.allocate_all_labeled_interfaces
    /\ outcome.kind = "return"
    /\ outcome.warned
    /\ outcome.assigned # <<>>

\* The device the invocation's hostname names, if the store has it
Named(data) == FirstDevice(Now, _normalize(data.hostname))

\* The switch port of the example plan
ExamplePort == Ref(FirstDevice(Now, <<"switch-1">>), <<"Ethernet1/1">>)

\* The invocation the step makes commits, with cabling on and the plan
\* "eth0=switch-1:Ethernet1/1"
ExampleRun ==
    /\ RunStep
    /\ request'.commit
    /\ request'.data.create_cables_from_patch_plan
    /\ request'.data.patch_plan = PlanExample

\* An invocation with the same inputs has cabled its device before the step
SameInputsRanBefore ==
    /\ Named(request'.data) # NoPk
    /\ devices[Named(request'.data)].site = request'.data.site
    /\ devices[Named(request'.data)].device_type = request'.data.device_type
    /\ \E k \in 1..Len(cables) :
          /\ cables[k].a = Ref(Named(request'.data), <<"eth0">>)
          /\ cables[k].b = ExamplePort

\* The invocation the step makes gets past the allocation, and the switch
\* is in its site or the site match is not enforced
ReachesCabling ==
    /\ outcome'.at \in {"cabling", "complete"}
    /\ \/ ~request'.data.enforce_patch_plan_site_match
       \/ request'.data.site = devices[ExamplePort[1]].site

\* The first invocation with the example plan that reaches the cabling
\* returns, creates one cable and reports created=1, skipped=0
FirstRunCreatesOne ==
    (/\ ExampleRun
     /\ ~HasCable(Now, ExamplePort)
     /\ ReachesCabling) =>
        /\ outcome'.kind = "return"
        /\ Len(cables') = Len(cables) + 1
        /\ cables'[Len(cables')].b = ExamplePort
        /\ cables'[Len(cables')].a = Ref(outcome'.device, <<"eth0">>)
        /\ outcome'.summary
        /\ outcome'.created = 1
        /\ outcome'.skipped = 0

\* C6 as stated: the first run with the plan "eth0=switch-1:Ethernet1/1"
\* creates one cable and reports created=1, skipped=0; a second run with the
\* same inputs creates no cable and reports created=0, skipped=1.
C6_RerunReportsSkipped ==
    [][/\ FirstRunCreatesOne
       /\ (ExampleRun /\ SameInputsRanBefore) =>
             /\ cables' = cables
             /\ outcome'.summary
             /\ outcome'.created = 0
             /\ outcome'.skipped = 1]_vars

\* C6 amended: the first run as stated.  A second run with the same inputs
\* aborts with "Device name already exists", changes nothing and reports no
\* counts; a later run of the same plan under a hostname not yet in the store
\* that reaches the cabling, the switch being in its site or the site match
\* not enforced, returns, creates no cable and reports created=0, skipped=1.
C6_RerunUnderNewNameReportsSkipped ==
    [][/\ FirstRunCreatesOne
       /\ (ExampleRun /\ SameInputsRanBefore) =>
             /\ store' = store
             /\ outcome'.kind = "AbortScript"
             /\ outcome'.msg = "Device name already exists"
             /\ ~outcome'.summary
       /\ (/\ ExampleRun
           /\ Named(request'.data) = NoPk
           /\ HasCable(Now, ExamplePort)
           /\ ReachesCabling) =>
             /\ cables' = cables
             /\ outcome'.kind = "return"
             /\ outcome'.summary
             /\ outcome'.created = 0
             /\ outcome'.skipped = 1]_vars

\* C6 witness: a run of the example plan has reported created=0, skipped=1,
\* the port of the switch being cabled to the device of an earlier run.
C6_Witness ==
    /\ Committed
    /\ request.data.create_cables_from_patch_plan
    /\ request.data.patch_plan = PlanExample
    /\ outcome.summary
    /\ outcome.created = 0
    /\ outcome.skipped = 1
    /\ \E k \in 1..Len(cables) :
          /\ cables[k].b = ExamplePort
          /\ cables[k].a[1] # outcome.device

\* C8: an invocation with commit false leaves devices, interfaces, addresses
\* and cables as they were, whatever its other inputs: it aborts on a taken
\* hostname and otherwise returns "Dry-run complete.".
C8_DryRunChangesNothing ==
    [][(RunStep /\ ~request'.commit) =>
          /\ store' = store
          /\ log' = log
          /\ IF Named(request'.data) # NoPk
             THEN /\ outcome'.kind = "AbortScript"
                  /\ outcome'.msg = "Device name already exists"
             ELSE /\ outcome'.kind = "return"
                  /\ outcome'.msg = "Dry-run complete."]_vars

\* C8 witness: a dry run has returned although its plan is malformed, its
\* device type has no interfaces and the management pool of its site is
\* exhausted.
C8_Witness ==
    /\ Ran
    /\ ~request.commit
    /\ outcome.msg = "Dry-run complete."
    /\ request.data.create_cables_from_patch_plan
    /\ _parse_patch_plan(request.data.patch_plan).kind # "return"
    /\ request.data.device_type = "dt-none"
    /\ \E i \in 1..Len(log) : PrefixRange(log[i].prefix.prefix) \subseteq Recorded

\* The cables an interface is an endpoint of
CablesOf(ref) == {k \in 1..Len(cables) : ref \in {cables[k].a, cables[k].b}}

\* The plan of the invocation asks for a cable from an interface of the new
\* device to itself
SelfCabling ==
    /\ _parse_patch_plan(request.data.patch_plan).kind = "return"
    /\ LET mappings == _parse_patch_plan(request.data.patch_plan).mappings
       IN  \E k \in 1..Len(mappings) :
               /\ mappings[k][1] = mappings[k][3]
               /\ FirstDevice(Now, mappings[k][2]) = outcome.device

\* C9 as stated: no interface is the endpoint of more than one cable, and a
\* mapping with an occupied side is skipped before the store is asked for
\* the cable: no run ends in the store's refusal of a second termination
\* (unless it is of a cable from an interface to itself).
C9_OccupiedEndpointIsSkipped ==
    /\ \A k \in 1..Len(interfaces) :
          Cardinality(CablesOf(Ref(interfaces[k].device, interfaces[k].name))) <= 1
    /\ (Ran /\ outcome.kind = "IntegrityError") => SelfCabling

NamesDistinct ==
    \A i, j \in 1..Len(devices) : i # j => devices[i].name # devices[j].name

\* C10: the names of the devices are pairwise distinct, and an invocation
\* whose normalized hostname is the name of a device aborts with
\* "Device name already exists" and leaves the store as it was.
C10_NamesStayDistinct ==
    /\ []NamesDistinct
    /\ [][(/\ RunStep
           /\ \E pk \in 1..Len(devices) :
                 devices[pk].name = strip(request'.data.hostname)) =>
             /\ store' = store
             /\ outcome'.kind = "AbortScript"
             /\ outcome'.msg = "Device name already exists"]_vars

\* C10 witness: a committed run has aborted on the name of a device an
\* earlier run created from a hostname with surrounding whitespace.
C10_Witness ==
    /\ Committed
    /\ outcome.msg = "Device name already exists"
    /\ request.data.hostname # _normalize(request.data.hostname)
    /\ Named(request.data) > 1

\* C11: a committed run under a hostname not in the store, with a device
\* type without interface templates, aborts with "No interfaces found"; it
\* has added the device, without primary address, and nothing else: no
\* interface, no address, no cable.
C11_NoTemplatesAbortsAfterTheDevice ==
    [][(/\ RunStep
        /\ request'.commit
        /\ Named(request'.data) = NoPk
        /\ InterfaceTemplates(request'.data.device_type) = <<>>) =>
          /\ outcome'.kind = "AbortScript"
          /\ outcome'.msg = "No interfaces found on device after creation"
          /\ devices' = Append(devices,
                               [name |-> strip(request'.data.hostname),
                                site |-> request'.data.site,
                                device_type |-> request'.data.device_type,
                                primary_ip4 |-> Nothing])
          /\ outcome'.device = Len(devices')
          /\ interfaces' = interfaces
          /\ ip_addresses' = ip_addresses
          /\ cables' = cables
          /\ log' = log]_vars

\* C11 witness: a run with cabling enabled and all labels targeted has
\* aborted on a device without interfaces, which the store holds.
C11_Witness ==
    /\ Committed
    /\ outcome.msg = "No interfaces found on device after creation"
    /\ outcome.device # NoPk
    /\ devices[outcome.device].device_type = "dt-none"
    /\ DeviceInterfaces(Now, outcome.device) = <<>>
    /\ request.data.create_cables_from_patch_plan
    /\ request.data.allocate_all_labeled_interfaces

\* The cables with an interface of the device as endpoint
CablesOfDevice(device) ==
    {k \in 1..Len(cables) : device \in {cables[k].a[1], cables[k].b[1]}}

\* The plans of the invocations that have a malformed line
MalformedPlans == {plan \in PatchPlans : MalformedLines(plan) # {}}

\* C12: a run with cabling enabled whose patch plan has a malformed line,
\* wherever in the plan, creates no cable, and does not end in a return.
C12_MalformedPlanCreatesNoCable ==
    [][(/\ RunStep
        /\ request'.data.create_cables_from_patch_plan
        /\ request'.data.patch_plan \in MalformedPlans) =>
          /\ cables' = cables
          /\ outcome'.kind # "return" \/ ~request'.commit
          /\ outcome'.created = 0
          /\ ~outcome'.summary]_vars

\* C12 witness: a committed run has reached the cabling with a plan whose
\* first line is a mapping it could have cabled and whose second line is
\* malformed; it has ended there, and its device has no cable.
C12_Witness ==
    /\ Committed
    /\ request.data.create_cables_from_patch_plan
    /\ outcome.at = "cabling"
    /\ MalformedLines(request.data.patch_plan) = {2}
    /\ outcome.line = 2
    /\ ~HasCable(Now, ExamplePort)
    /\ CablesOfDevice(outcome.device) = {}
    /\ InterfaceExists(Now, outcome.device, <<"eth0">>)

\* The IPAddress rows of the store that carry the addresses a run has logged
\* as assigned, on the interfaces it has logged them for
AssignedKept ==
    \A i \in 1..Len(outcome.assigned) :
        \E k \in 1..Len(ip_addresses) :
            /\ ip_addresses[k].address = outcome.assigned[i].address
            /\ ip_addresses[k].assigned_object =
                  Ref(outcome.device, outcome.assigned[i].iface)

\* A committed run has aborted in the cabling step
AbortedInCabling ==
    /\ Committed
    /\ outcome.at = "cabling"
    /\ outcome.kind = "AbortScript"

\* C13: after a committed run has aborted in the cabling step, the store
\* holds the device under the normalized hostname, an address row for every
\* assignment the run logged, the primary address on the device when a
\* management interface was assigned one, and one cable for each mapping the
\* run had counted as created before the abort.
C13_CablingAbortKeepsEarlierSteps ==
    AbortedInCabling =>
        /\ outcome.device \in 1..Len(devices)
        /\ devices[outcome.device].name = strip(request.data.hostname)
        /\ DeviceInterfaces(Now, outcome.device) # <<>>
        /\ outcome.assigned # <<>>
        /\ AssignedKept
        /\ MgmtAddresses(outcome.device) # {} =>
              PrimaryOf(outcome.device) \in MgmtAddresses(outcome.device)
        /\ Cardinality({k \in CablesOfDevice(outcome.device) :
                            cables[k].a[1] = outcome.device}) = outcome.created

\* C13 witness: the run has aborted on the second line of its plan, for a
\* device the store does not have; the cable of the first line, two
\* addresses and the primary address are in the store.
C13_Witness ==
    /\ AbortedInCabling
    /\ outcome.msg = "B-side device not found"
    /\ outcome.created = 1
    /\ \E k \in 1..Len(cables) :
          /\ cables[k].a = Ref(outcome.device, <<"eth0">>)
          /\ cables[k].b = ExamplePort
    /\ Len(outcome.assigned) = 2
    /\ PrimaryOf(outcome.device) # Nothing

\* C14 as stated: no cable of the store has the same interface as its A-side
\* and as its B-side.
C14_NoCableFromAnInterfaceToItself ==
    \A k \in 1..Len(cables) : cables[k].a # cables[k].b

==========================================================================
